---------------------------- MODULE Spec2Model ----------------------------
(***************************************************************************)
(* A model of PyDeck-CLI: pydeckCLI.py (get_zoom_level, create_map and the *)
(* argparse entry point) and show_properties.py.                           *)
(*                                                                         *)
(* Numbers.  The programs compute with Python floats.  The model computes  *)
(* exactly: coordinates are integers, a quotient a / b is the reduced      *)
(* fraction <<n, d>> with d > 0, and a zoom is kept as the rational        *)
(* coefficient of the positive constant 360 / (2 * pi * ln 2), which is    *)
(* the only irrational factor of lines 20-21.  Rounding is not modelled.   *)
(***************************************************************************)
EXTENDS Integers, Sequences, FiniteSets, TLC

VARIABLES
    pc,             \* position of the running script
    argv,           \* command line: option name -> sequence of value tokens
    inputFile,      \* what open(input_file) / json.load find
    args,           \* argparse Namespace (pydeckCLI.py:125)
    params,         \* create_map's parameters as bound by the call (line 127)
    features,       \* pydeckCLI.py:32
    bounds_list,    \* pydeckCLI.py:35
    centroid_list,  \* pydeckCLI.py:36
    bounds,         \* pydeckCLI.py:47
    centroid,       \* pydeckCLI.py:51 (longitude, latitude of lines 52-53)
    zoom,           \* pydeckCLI.py:56
    layer,          \* pydeckCLI.py:59
    view_state,     \* pydeckCLI.py:77
    data,           \* pydeckCLI.py:29, show_properties.py:7
    outputFile,     \* the file r.to_html(output_file) writes
    error,          \* name of the uncaught exception, or "none"
    exitCode,       \* process exit status, -1 while running
    zwidth,         \* get_zoom_level's width argument
    zheight,        \* get_zoom_level's height argument
    properties,     \* show_properties.py:8
    stdout          \* lines printed by show_properties.py

vars == <<pc, argv, inputFile, args, params, features, bounds_list,
          centroid_list, bounds, centroid, zoom, layer, view_state, data,
          outputFile, error, exitCode, zwidth, zheight, properties, stdout>>

---------------------------------------------------------------------------
(* Bounds of the model *)

MaxCoord == 1
MaxFeatures == 2
MaxPixels == 2
MaxOpts == 2

(* Program constants *)

MapWidth == 500
MapHeight == 500
MinZoom == 13
MaxZoom == 20
ElevationRangeTop == 3000
\* 360 / (2 * pi * ln 2) = 82.6603..., as ZoomScaleNum / ZoomScaleDen
ZoomScaleNum == 826603
ZoomScaleDen == 10000

---------------------------------------------------------------------------
(* Exact arithmetic *)

Abs(n) == IF n < 0 THEN 0 - n ELSE n

RECURSIVE Gcd(_, _)
Gcd(a, b) == IF b = 0 THEN a ELSE Gcd(b, a % b)

\* Python's a / b for b # 0, as a reduced fraction with positive denominator
TrueDiv(a, b) ==
    LET g == Gcd(Abs(a), Abs(b))
        s == IF b < 0 THEN 0 - 1 ELSE 1
    IN  <<(s * a) \div g, (s * b) \div g>>

\* p < q for fractions with positive denominators
RatLt(p, q) == p[1] * q[2] < q[1] * p[2]

\* fault seeded for C9: the leading -1 * of lines 20-21 dropped
RatNegDropped(q) == q

\* the leading -1 * of lines 20-21
RatNeg(q) == <<0 - q[1], q[2]>>

\* fault seeded for C3: max in place of min on line 22
PyMax2(a, b) == IF RatLt(a, b) THEN b ELSE a

\* Python's min(a, b): b only when b < a
PyMin2(a, b) == IF RatLt(b, a) THEN b ELSE a

RECURSIVE SeqSum(_)
SeqSum(s) == IF s = <<>> THEN 0 ELSE Head(s) + SeqSum(Tail(s))

\* Python's min(iterable) / max(iterable) over a non-empty sequence of ints:
\* a left-to-right scan keeping the first extreme element
RECURSIVE ScanMin(_, _)
ScanMin(best, s) ==
    IF s = <<>> THEN best
    ELSE ScanMin(IF Head(s) < best THEN Head(s) ELSE best, Tail(s))

RECURSIVE ScanMax(_, _)
ScanMax(best, s) ==
    IF s = <<>> THEN best
    ELSE ScanMax(IF Head(s) > best THEN Head(s) ELSE best, Tail(s))

PyMin(s) == ScanMin(Head(s), Tail(s))
PyMax(s) == ScanMax(Head(s), Tail(s))

Column(list, i) == [k \in 1..Len(list) |-> list[k][i]]

---------------------------------------------------------------------------
(* get_zoom_level, pydeckCLI.py:8-22 *)

xdiffOf(b) == b[3] - b[1]
ydiffOf(b) == b[4] - b[2]

\* line 20: -1 * (xdiff / width) / (2 * math.pi) * 360 / math.log(2)
xzoomOf(b, width) == RatNeg(TrueDiv(xdiffOf(b), width))
\* line 21
yzoomOf(b, height) == RatNeg(TrueDiv(ydiffOf(b), height))

\* the value returned, or the exception raised by a division by zero
get_zoom_level(b, width, height) ==
    IF width = 0 \/ height = 0
    THEN [raised |-> "ZeroDivisionError", value |-> <<0, 1>>]
    ELSE [raised |-> "none",
          value |-> PyMin2(xzoomOf(b, width), yzoomOf(b, height))]

---------------------------------------------------------------------------
(* Input: GeoJSON geometries and shapely's shape() *)

Coords == (0 - 1)..MaxCoord

PointGeoms ==
    {[type |-> "Point", coordinates |-> <<<<x, y>>>>] : x \in Coords, y \in Coords}

\* two-vertex LineStrings; even extents keep the midpoint integral
LineDeltas == {<<2, 0>>, <<0, 2>>, <<2, 2>>, <<2, 0 - 2>>}

LineGeoms ==
    {g \in {[type |-> "LineString",
             coordinates |-> <<<<x, y>>, <<x + d[1], y + d[2]>>>>] :
                x \in Coords, y \in Coords, d \in LineDeltas} :
        g.coordinates[2][1] \in Coords /\ g.coordinates[2][2] \in Coords}

Geometries == PointGeoms \cup LineGeoms

\* shapely geom.bounds: (minx, miny, maxx, maxy) over the vertices
GeomBounds(g) ==
    LET xs == Column(g.coordinates, 1)
        ys == Column(g.coordinates, 2)
    IN  <<PyMin(xs), PyMin(ys), PyMax(xs), PyMax(ys)>>

\* shapely geom.centroid: the point itself, the midpoint of a segment
GeomCentroid(g) ==
    LET n == Len(g.coordinates)
    IN  <<SeqSum(Column(g.coordinates, 1)) \div n,
          SeqSum(Column(g.coordinates, 2)) \div n>>


\* the object shape(feature['geometry']) returns, as far as create_map reads it
shape(g) == [bounds |-> GeomBounds(g), centroid |-> GeomCentroid(g)]

SeqsUpTo(S, n) == UNION {[1..k -> S] : k \in 0..n}

\* a feature of the input; one without its 'geometry' key is malformed
MapFeatures ==
    {[type |-> "Feature", geometry |-> g] : g \in Geometries}
        \cup {[type |-> "Feature"]}

MapDocuments ==
    {[type |-> "FeatureCollection", features |-> fs] :
        fs \in SeqsUpTo(MapFeatures, MaxFeatures)}
        \cup {[type |-> "FeatureCollection"]}

\* documents of one more feature, all of them points
PointDocuments ==
    {[type |-> "FeatureCollection", features |-> fs] :
        fs \in [1..(MaxFeatures + 1) ->
                    {[type |-> "Feature", geometry |-> g] : g \in PointGeoms}]}

\* the input path: no such file, a file that is not JSON, or a JSON document
FilesOf(docs) ==
    {[state |-> "missing"], [state |-> "invalid"]}
        \cup {[state |-> "json", data |-> d] : d \in docs}

Unset == [unset |-> TRUE]

---------------------------------------------------------------------------
(* create_map, pydeckCLI.py:24-88, one action per statement group *)

mapLocals == <<features, bounds_list, centroid_list, bounds, centroid, zoom,
               layer, view_state, data>>
propVars == <<properties, stdout>>
zoomArgs == <<zwidth, zheight>>
cliVars == <<argv, inputFile, args, params>>

\* an uncaught exception: traceback, exit status 1
Raise(e) ==
    /\ pc' = "exit"
    /\ error' = e
    /\ exitCode' = 1

Goto(l) ==
    /\ pc' = l
    /\ UNCHANGED <<error, exitCode>>

\* fault seeded for C6: the output file opened for writing before the input
\* is read
ReadInputAfterOpeningOutput ==
    /\ pc = "open"
    /\ outputFile' = [layers |-> <<>>, initial_view_state |-> Unset]
    /\ IF inputFile.state = "missing"
       THEN Raise("FileNotFoundError") /\ UNCHANGED data
       ELSE IF inputFile.state = "invalid"
       THEN Raise("JSONDecodeError") /\ UNCHANGED data
       ELSE Goto("features") /\ data' = inputFile.data
    /\ UNCHANGED <<features, bounds_list, centroid_list, bounds, centroid,
                   zoom, layer, view_state>>
    /\ UNCHANGED <<cliVars, zoomArgs, propVars>>

\* lines 28-29: with open(input_file) as f: data = json.load(f)
ReadInput ==
    /\ pc = "open"
    /\ IF inputFile.state = "missing"
       THEN Raise("FileNotFoundError") /\ UNCHANGED data
       ELSE IF inputFile.state = "invalid"
       THEN Raise("JSONDecodeError") /\ UNCHANGED data
       ELSE Goto("features") /\ data' = inputFile.data
    /\ UNCHANGED <<features, bounds_list, centroid_list, bounds, centroid,
                   zoom, layer, view_state>>
    /\ UNCHANGED <<cliVars, outputFile, zoomArgs, propVars>>

\* line 32: features = data['features']
ExtractFeatures ==
    /\ pc = "features"
    /\ IF "features" \in DOMAIN data
       THEN Goto("shapes") /\ features' = data.features
       ELSE Raise("KeyError") /\ UNCHANGED features
    /\ UNCHANGED <<bounds_list, centroid_list, bounds, centroid, zoom, layer,
                   view_state, data>>
    /\ UNCHANGED <<cliVars, outputFile, zoomArgs, propVars>>

\* how many features the loop of lines 37-40 gets through before
\* feature['geometry'] raises KeyError
RECURSIVE ShapedPrefix(_)
ShapedPrefix(fs) ==
    IF fs = <<>> \/ "geometry" \notin DOMAIN Head(fs) THEN 0
    ELSE 1 + ShapedPrefix(Tail(fs))

\* lines 35-40: the loop that fills bounds_list and centroid_list
ShapeLoop ==
    /\ pc = "shapes"
    /\ LET n == ShapedPrefix(features)
       IN  /\ bounds_list' = [i \in 1..n |-> shape(features[i].geometry).bounds]
           /\ centroid_list' =
                [i \in 1..n |-> shape(features[i].geometry).centroid]
           /\ IF n = Len(features) THEN Goto("bounds") ELSE Raise("KeyError")
    /\ UNCHANGED <<features, bounds, centroid, zoom, layer, view_state, data>>
    /\ UNCHANGED <<cliVars, outputFile, zoomArgs, propVars>>

\* fault seeded for C1: minx taken from the first box instead of the minimum
TotalBoundsFirstMinx(list) ==
    <<list[1][1], PyMin(Column(list, 2)),
      PyMax(Column(list, 3)), PyMax(Column(list, 4))>>

\* lines 43-47
TotalBoundsOf(list) ==
    <<PyMin(Column(list, 1)), PyMin(Column(list, 2)),
      PyMax(Column(list, 3)), PyMax(Column(list, 4))>>

\* lines 43-47: min() of an empty sequence raises ValueError
TotalBounds ==
    /\ pc = "bounds"
    /\ IF bounds_list = <<>>
       THEN Raise("ValueError") /\ UNCHANGED bounds
       ELSE Goto("centroid") /\ bounds' = TotalBoundsOf(bounds_list)
    /\ UNCHANGED <<features, bounds_list, centroid_list, centroid, zoom,
                   layer, view_state, data>>
    /\ UNCHANGED <<cliVars, outputFile, zoomArgs, propVars>>

\* fault seeded for C2: the centre of the centroids' extent, not their mean
ExtentCentre(list) ==
    <<TrueDiv(PyMin(Column(list, 1)) + PyMax(Column(list, 1)), 2),
      TrueDiv(PyMin(Column(list, 2)) + PyMax(Column(list, 2)), 2)>>

\* lines 49-51: Point(sum(x) / len, sum(y) / len)
MeanCentroidOf(list) ==
    <<TrueDiv(SeqSum(Column(list, 1)), Len(list)),
      TrueDiv(SeqSum(Column(list, 2)), Len(list))>>

\* lines 49-53: a division by len(centroid_list)
MeanCentroid ==
    /\ pc = "centroid"
    /\ IF Len(centroid_list) = 0
       THEN Raise("ZeroDivisionError") /\ UNCHANGED centroid
       ELSE Goto("zoom") /\ centroid' = MeanCentroidOf(centroid_list)
    /\ UNCHANGED <<features, bounds_list, centroid_list, bounds, zoom, layer,
                   view_state, data>>
    /\ UNCHANGED <<cliVars, outputFile, zoomArgs, propVars>>

\* line 56: zoom = get_zoom_level(bounds, 500, 500)
EstimateZoom ==
    /\ pc = "zoom"
    /\ zwidth' = MapWidth
    /\ zheight' = MapHeight
    /\ LET r == get_zoom_level(bounds, MapWidth, MapHeight)
       IN  IF r.raised = "none"
           THEN Goto("layer") /\ zoom' = r.value
           ELSE Raise(r.raised) /\ UNCHANGED zoom
    /\ UNCHANGED <<features, bounds_list, centroid_list, bounds, centroid,
                   layer, view_state, data>>
    /\ UNCHANGED <<cliVars, outputFile, propVars>>

\* lines 59-74: layer = pdk.Layer(...)
LayerOf(p, d) ==
    [type |-> p.layer_type,
     data |-> d,
     get_position |-> <<"lng", "lat">>,
     get_elevation |-> <<"properties.", p.elevation_property>>,
     get_fill_color |-> p.fill_color,
     get_line_color |-> p.line_color,
     auto_highlight |-> p.auto_highlight,
     elevation_scale |-> p.elevation_scale,
     pickable |-> p.pickable,
     elevation_range |-> <<0, ElevationRangeTop>>,
     stroked |-> p.stroked,
     filled |-> p.filled,
     wireframe |-> p.wireframe,
     extruded |-> p.extruded,
     coverage |-> p.coverage]

BuildLayer ==
    /\ pc = "layer"
    /\ layer' = LayerOf(params, data)
    /\ Goto("view")
    /\ UNCHANGED <<features, bounds_list, centroid_list, bounds, centroid,
                   zoom, view_state, data>>
    /\ UNCHANGED <<cliVars, outputFile, zoomArgs, propVars>>

\* lines 77-84: view_state = pdk.ViewState(...)
ViewStateOf(p, c, z) ==
    [longitude |-> c[1],
     latitude |-> c[2],
     zoom |-> z,
     min_zoom |-> MinZoom,
     max_zoom |-> MaxZoom,
     pitch |-> p.pitch,
     bearing |-> p.bearing]

BuildViewState ==
    /\ pc = "view"
    /\ view_state' = ViewStateOf(params, centroid, zoom)
    /\ Goto("render")
    /\ UNCHANGED <<features, bounds_list, centroid_list, bounds, centroid,
                   zoom, layer, data>>
    /\ UNCHANGED <<cliVars, outputFile, zoomArgs, propVars>>

\* lines 87-88: r = pdk.Deck(...); r.to_html(output_file); then exit status 0
Render ==
    /\ pc = "render"
    /\ outputFile' = [layers |-> <<layer>>, initial_view_state |-> view_state]
    /\ pc' = "exit"
    /\ exitCode' = 0
    /\ UNCHANGED <<error, mapLocals, cliVars, zoomArgs, propVars>>

---------------------------------------------------------------------------
(* The command line of pydeckCLI.py, lines 91-127 *)

BoolOptions ==
    {"auto_highlight", "pickable", "stroked", "filled", "wireframe",
     "extruded"}
FloatOptions == {"elevation_scale", "coverage", "pitch", "bearing"}
ColorOptions == {"fill_color", "line_color"}
Options ==
    BoolOptions \cup FloatOptions \cup ColorOptions
        \cup {"layer_type", "elevation_property"}

\* the value tokens tried for each option
OptionValues(o) ==
    CASE o \in BoolOptions -> {<<"True">>, <<"False">>, <<"">>}
      [] o = "elevation_scale" -> {<<"2">>}
      [] o = "coverage" -> {<<"0">>, <<"1">>, <<"2">>, <<"-1">>, <<"abc">>}
      [] o = "pitch" -> {<<"0">>, <<"90">>, <<"91">>}
      [] o = "bearing" -> {<<"359">>, <<"360">>, <<"-1">>}
      [] o = "fill_color" -> {<<"85", "85", "85">>}
      [] o = "line_color" -> {<<"250", "250", "250">>, <<"250", "x", "250">>}
      [] o = "layer_type" -> {<<"GeoJsonLayer">>, <<"ScatterplotLayer">>}
      [] o = "elevation_property" -> {<<"height">>}

AllTokens == UNION {OptionValues(o) : o \in Options}

\* command lines giving at most n options
Argvs(n) ==
    UNION {{f \in [S -> AllTokens] : \A o \in S : f[o] \in OptionValues(o)} :
            S \in {T \in SUBSET Options : Cardinality(T) <= n}}

\* float() and int() on the numerals in use; any other token is rejected
NumberOf ==
    ("-1" :> (0 - 1)) @@ ("0" :> 0) @@ ("1" :> 1) @@ ("2" :> 2)
        @@ ("85" :> 85) @@ ("90" :> 90) @@ ("91" :> 91) @@ ("250" :> 250)
        @@ ("359" :> 359) @@ ("360" :> 360)

\* bool(s) of a string: every non-empty string is True
PyBool(tok) == tok # ""

\* whether argparse accepts the tokens given for option o (its type= and
\* choices= of lines 95-121)
Accepted(o, toks) ==
    CASE o \in FloatOptions \cup ColorOptions ->
            \A i \in 1..Len(toks) : toks[i] \in DOMAIN NumberOf
      [] o = "layer_type" -> toks[1] \in {"GeoJsonLayer"}
      [] OTHER -> TRUE

\* the value argparse stores for option o given its tokens
Converted(o, toks) ==
    CASE o \in BoolOptions -> PyBool(toks[1])
      [] o \in FloatOptions -> NumberOf[toks[1]]
      [] o \in ColorOptions -> [i \in 1..Len(toks) |-> NumberOf[toks[i]]]
      [] OTHER -> toks[1]

\* the default= of lines 95-121
Defaults ==
    [elevation_property |-> "elevation",
     layer_type |-> "None",
     elevation_scale |-> 1,
     fill_color |-> <<255, 0, 0>>,
     line_color |-> <<0, 0, 255>>,
     auto_highlight |-> TRUE,
     pickable |-> TRUE,
     stroked |-> FALSE,
     filled |-> TRUE,
     wireframe |-> TRUE,
     extruded |-> TRUE,
     coverage |-> 1,
     pitch |-> 45,
     bearing |-> 0]

\* line 125: the Namespace parse_args returns for an accepted command line
Namespace(av) ==
    [o \in Options \cup {"input_file", "output_file"} |->
        IF o = "input_file" THEN "input.geojson"
        ELSE IF o = "output_file" THEN "output.html"
        ELSE IF o \in DOMAIN av THEN Converted(o, av[o])
        ELSE Defaults[o]]

\* line 125: args = parser.parse_args(); a rejected option exits with status 2
ParseArgs ==
    /\ pc = "start"
    /\ IF \A o \in DOMAIN argv : Accepted(o, argv[o])
       THEN /\ args' = Namespace(argv)
            /\ Goto("call")
       ELSE /\ args' = args
            /\ pc' = "exit"
            /\ error' = "SystemExit"
            /\ exitCode' = 2
    /\ UNCHANGED <<argv, inputFile, params, mapLocals, outputFile, zoomArgs,
                   propVars>>

\* line 24: create_map's parameters, in order
ParameterNames ==
    <<"input_file", "layer_type", "elevation_scale", "fill_color",
      "line_color", "auto_highlight", "pickable", "extruded", "stroked",
      "filled", "wireframe", "coverage", "pitch", "bearing", "output_file",
      "elevation_property">>

\* line 127: the positional arguments of the call, in order
CallArguments(a) ==
    <<a.input_file, a.layer_type, a.elevation_scale, a.fill_color,
      a.line_color, a.auto_highlight, a.pickable, a.stroked, a.filled,
      a.wireframe, a.extruded, a.coverage, a.pitch, a.bearing,
      a.output_file, a.elevation_property>>

\* positional binding: the i-th parameter gets the i-th argument
Bind(names, values) ==
    [n \in {names[i] : i \in 1..Len(names)} |->
        values[CHOOSE i \in 1..Len(names) : names[i] = n]]

\* line 127: create_map(args.input_file, ...)
CallCreateMap ==
    /\ pc = "call"
    /\ params' = Bind(ParameterNames, CallArguments(args))
    /\ Goto("open")
    /\ UNCHANGED <<argv, inputFile, args, mapLocals, outputFile, zoomArgs,
                   propVars>>

---------------------------------------------------------------------------
(* The map script: one run of pydeckCLI.py *)

\* a FeatureCollection with one LineString from (-1, -1) to (1, 1)
SampleDocument ==
    [type |-> "FeatureCollection",
     features |-> <<[type |-> "Feature",
                     geometry |-> [type |-> "LineString",
                                   coordinates |-> <<<<0 - 1, 0 - 1>>,
                                                     <<1, 1>>>>]]>>]

InitLocals ==
    /\ pc = "start"
    /\ args = Unset
    /\ params = Unset
    /\ features = <<>>
    /\ bounds_list = <<>>
    /\ centroid_list = <<>>
    /\ bounds = <<>>
    /\ centroid = <<>>
    /\ zoom = <<>>
    /\ layer = Unset
    /\ view_state = Unset
    /\ data = Unset
    /\ outputFile = Unset
    /\ error = "none"
    /\ exitCode = 0 - 1
    /\ zwidth = 0
    /\ zheight = 0
    /\ properties = {}
    /\ stdout = <<>>

\* every bounded input file under the default command line, and every
\* bounded command line over the sample document
Init ==
    /\ InitLocals
    /\ \/ /\ argv \in Argvs(0)
          /\ inputFile \in FilesOf(MapDocuments \cup PointDocuments)
       \/ /\ argv \in Argvs(MaxOpts)
          /\ inputFile \in FilesOf({SampleDocument})

Next ==
    \/ ParseArgs
    \/ CallCreateMap
    \/ ReadInput
    \/ ExtractFeatures
    \/ ShapeLoop
    \/ TotalBounds
    \/ MeanCentroid
    \/ EstimateZoom
    \/ BuildLayer
    \/ BuildViewState
    \/ Render

Spec == Init /\ [][Next]_vars

---------------------------------------------------------------------------
(* get_zoom_level on its own: every bounded argument triple *)

InitZoom ==
    /\ InitLocals
    /\ argv \in Argvs(0)
    /\ inputFile = [state |-> "missing"]

\* a call get_zoom_level(bounds, width, height), pydeckCLI.py:8-22
CallZoom ==
    /\ pc = "start"
    /\ \E b \in Coords \X Coords \X Coords \X Coords,
          w \in 0..MaxPixels, h \in 0..MaxPixels :
            /\ bounds' = b
            /\ zwidth' = w
            /\ zheight' = h
            /\ pc' = "return"
            /\ UNCHANGED <<error, exitCode, zoom>>
    /\ UNCHANGED <<features, bounds_list, centroid_list, centroid, layer,
                   view_state, data>>
    /\ UNCHANGED <<cliVars, outputFile, propVars>>

ReturnZoom ==
    /\ pc = "return"
    /\ LET r == get_zoom_level(bounds, zwidth, zheight)
       IN  /\ error' = r.raised
           /\ zoom' = IF r.raised = "none" THEN r.value ELSE zoom
    /\ pc' = "exit"
    /\ UNCHANGED <<exitCode, features, bounds_list, centroid_list, bounds,
                   centroid, layer, view_state, data>>
    /\ UNCHANGED <<cliVars, outputFile, zoomArgs, propVars>>

NextZoom ==
    \/ CallZoom
    \/ ReturnZoom

SpecZoom == InitZoom /\ [][NextZoom]_vars

---------------------------------------------------------------------------
(* show_properties.py *)

\* property names as sequences of code points: "B", "a", "ab", "b"
Keys == {<<66>>, <<97>>, <<97, 98>>, <<98>>}

\* Python's str <: code point by code point, a proper prefix first
RECURSIVE StrLt(_, _)
StrLt(a, b) ==
    IF b = <<>> THEN FALSE
    ELSE IF a = <<>> THEN TRUE
    ELSE IF Head(a) # Head(b) THEN Head(a) < Head(b)
    ELSE StrLt(Tail(a), Tail(b))

\* a feature's 'properties' mapping: name -> value
PropertyDicts == UNION {[K -> {1}] : K \in SUBSET Keys}

PropFeatures ==
    {[type |-> "Feature", properties |-> d] : d \in PropertyDicts}
        \cup {[type |-> "Feature"]}

PropDocuments ==
    {[type |-> "FeatureCollection", features |-> fs] :
        fs \in SeqsUpTo(PropFeatures, MaxFeatures)}
        \cup {[type |-> "FeatureCollection"]}

\* lines 16-19: --properties is a store_true flag
PropArgvs == {[o \in S |-> <<>>] : S \in SUBSET {"properties"}}

InitProps ==
    /\ InitLocals
    /\ argv \in PropArgvs
    /\ inputFile \in FilesOf(PropDocuments)

\* lines 19-22: args = parser.parse_args(); if args.properties: ...
PropsMain ==
    /\ pc = "start"
    /\ args' = [input_file |-> "input.geojson",
                properties |-> "properties" \in DOMAIN argv]
    /\ IF args'.properties
       THEN Goto("open")
       ELSE pc' = "exit" /\ exitCode' = 0 /\ UNCHANGED error
    /\ UNCHANGED <<argv, inputFile, params, mapLocals, outputFile, zoomArgs,
                   propVars>>

\* lines 6-7: with open(input_file) as f: data = json.load(f)
PropsRead ==
    /\ pc = "open"
    /\ IF inputFile.state = "missing"
       THEN Raise("FileNotFoundError") /\ UNCHANGED data
       ELSE IF inputFile.state = "invalid"
       THEN Raise("JSONDecodeError") /\ UNCHANGED data
       ELSE Goto("collect") /\ data' = inputFile.data
    /\ UNCHANGED <<features, bounds_list, centroid_list, bounds, centroid,
                   zoom, layer, view_state>>
    /\ UNCHANGED <<cliVars, outputFile, zoomArgs, propVars>>

\* how many features the loop of lines 9-10 gets through before
\* feature['properties'] raises KeyError
RECURSIVE CollectedPrefix(_)
CollectedPrefix(fs) ==
    IF fs = <<>> \/ "properties" \notin DOMAIN Head(fs) THEN 0
    ELSE 1 + CollectedPrefix(Tail(fs))

\* lines 8-10: properties = set(); properties.update(...keys()) per feature
RECURSIVE UpdateAll(_, _)
UpdateAll(acc, fs) ==
    IF fs = <<>> THEN acc
    ELSE UpdateAll(acc \cup DOMAIN Head(fs).properties, Tail(fs))

PropsCollect ==
    /\ pc = "collect"
    /\ IF "features" \notin DOMAIN data
       THEN Raise("KeyError") /\ UNCHANGED properties
       ELSE LET n == CollectedPrefix(data.features)
            IN  /\ properties' = UpdateAll({}, SubSeq(data.features, 1, n))
                /\ IF n = Len(data.features)
                   THEN Goto("print")
                   ELSE Raise("KeyError")
    /\ UNCHANGED <<mapLocals, cliVars, outputFile, zoomArgs, stdout>>

\* fault seeded for C4: the set listed without sorting it by str <
RECURSIVE unsorted(_)
unsorted(S) ==
    IF S = {} THEN <<>>
    ELSE LET m == CHOOSE x \in S : \A y \in S \ {x} : Len(x) <= Len(y)
         IN  <<m>> \o unsorted(S \ {m})

\* sorted(properties): ascending by str <
RECURSIVE sorted(_)
sorted(S) ==
    IF S = {} THEN <<>>
    ELSE LET m == CHOOSE x \in S : \A y \in S \ {x} : StrLt(x, y)
         IN  <<m>> \o sorted(S \ {m})

\* lines 11-13: the header, then one line per sorted property
PrintedLines(props) ==
    <<<<"Available properties:">>>>
        \o [i \in 1..Cardinality(props) |-> <<"  - ", sorted(props)[i]>>]

PropsPrint ==
    /\ pc = "print"
    /\ stdout' = stdout \o PrintedLines(properties)
    /\ pc' = "exit"
    /\ exitCode' = 0
    /\ UNCHANGED <<error, mapLocals, cliVars, outputFile, zoomArgs,
                   properties>>

NextProps ==
    \/ PropsMain
    \/ PropsRead
    \/ PropsCollect
    \/ PropsPrint

SpecProps == InitProps /\ [][NextProps]_vars

---------------------------------------------------------------------------
(* Properties *)

Orderings(n) ==
    {p \in [1..n -> 1..n] : \A i, j \in 1..n : i # j => p[i] # p[j]}

ValidBox(b) == b[1] <= b[3] /\ b[2] <= b[4]

\* C1: the aggregate bounding box of create_map is the union box of the
\* per-geometry boxes: each corner is the least (minx, miny) or greatest
\* (maxx, maxy) of that corner over all boxes, whatever the order of the
\* features, and it is a valid box when every input box is.
C1_UnionBox ==
    bounds # <<>> =>
        LET n == Len(bounds_list)
            Least(v, k) ==
                /\ \A i \in 1..n : v <= bounds_list[i][k]
                /\ \E i \in 1..n : v = bounds_list[i][k]
            Greatest(v, k) ==
                /\ \A i \in 1..n : v >= bounds_list[i][k]
                /\ \E i \in 1..n : v = bounds_list[i][k]
        IN  /\ n > 0
            /\ Least(bounds[1], 1)
            /\ Least(bounds[2], 2)
            /\ Greatest(bounds[3], 3)
            /\ Greatest(bounds[4], 4)
            /\ pc = "centroid" =>
                \A p \in Orderings(n) :
                    TotalBoundsOf([i \in 1..n |-> bounds_list[p[i]]]) = bounds
            /\ (\A i \in 1..n : ValidBox(bounds_list[i])) => ValidBox(bounds)

\* a finished run over several boxes whose union is larger than each of them
C1_Witness ==
    /\ pc = "exit"
    /\ outputFile # Unset
    /\ Len(bounds_list) >= 2
    /\ \A i \in 1..Len(bounds_list) : bounds_list[i] # bounds

\* C2: the centre handed to the view state is the unweighted mean of the N
\* per-geometry centroids, sum / N on each axis; N equal centroids give that
\* point.
C2_MeanCentroid ==
    centroid # <<>> =>
        LET n == Len(centroid_list)
            sx == SeqSum(Column(centroid_list, 1))
            sy == SeqSum(Column(centroid_list, 2))
        IN  /\ n > 0
            /\ centroid[1][2] > 0
            /\ centroid[2][2] > 0
            /\ centroid[1][1] * n = sx * centroid[1][2]
            /\ centroid[2][1] * n = sy * centroid[2][2]
            /\ (\A i \in 1..n : centroid_list[i] = centroid_list[1]) =>
                centroid = <<<<centroid_list[1][1], 1>>,
                             <<centroid_list[1][2], 1>>>>
            /\ view_state # Unset =>
                /\ view_state.longitude = centroid[1]
                /\ view_state.latitude = centroid[2]

\* three distinct centroids whose mean is not the centre of the union box
C2_Witness ==
    /\ view_state # Unset
    /\ Len(centroid_list) = 3
    /\ Cardinality({centroid_list[i] : i \in 1..3}) = 3
    /\ 2 * centroid[1][1] # (bounds[1] + bounds[3]) * centroid[1][2]

\* C3: get_zoom_level returns min(xzoom, yzoom), xzoom = -(xdiff / width)
\* and yzoom = -(ydiff / height) in units of 360 / (2 pi ln 2); with
\* width = height it is the zoom of the axis with the larger span.
C3_MinZoom ==
    (pc = "exit" /\ error = "none") =>
        LET xd == bounds[3] - bounds[1]
            yd == bounds[4] - bounds[2]
            n == zoom[1]
            d == zoom[2]
        IN  /\ d > 0
            /\ n * zwidth <= (0 - xd) * d
            /\ n * zheight <= (0 - yd) * d
            /\ \/ n * zwidth = (0 - xd) * d
               \/ n * zheight = (0 - yd) * d
            /\ zwidth = zheight =>
                n * zwidth = (0 - (IF xd >= yd THEN xd ELSE yd)) * d

\* a box twice as wide as tall on a square surface
C3_Witness ==
    /\ pc = "exit"
    /\ error = "none"
    /\ zwidth = zheight
    /\ bounds[4] - bounds[2] > 0
    /\ bounds[3] - bounds[1] = 2 * (bounds[4] - bounds[2])
    /\ zoom = xzoomOf(bounds, zwidth)
    /\ zoom # yzoomOf(bounds, zheight)

\* C4: for every well-formed feature sequence, the empty one and features
\* with no properties included, show_properties lists exactly the union of
\* the features' property keys, each once, in ascending string order, and
\* ends without error; for no features it lists nothing.
C4_SortedUnion ==
    LET wellFormed ==
            /\ inputFile.state = "json"
            /\ "features" \in DOMAIN inputFile.data
            /\ \A i \in 1..Len(inputFile.data.features) :
                "properties" \in DOMAIN inputFile.data.features[i]
        fs == inputFile.data.features
        keys == UNION {DOMAIN fs[i].properties : i \in 1..Len(fs)}
        listed == [i \in 1..(Len(stdout) - 1) |-> stdout[i + 1][2]]
    IN  (pc = "exit" /\ args.properties /\ wellFormed) =>
            /\ error = "none"
            /\ exitCode = 0
            /\ Len(stdout) = 1 + Cardinality(keys)
            /\ stdout[1] = <<"Available properties:">>
            /\ \A i \in 1..Len(listed) : stdout[i + 1][1] = "  - "
            /\ {listed[i] : i \in 1..Len(listed)} = keys
            /\ \A i \in 1..(Len(listed) - 1) : StrLt(listed[i], listed[i + 1])
            /\ fs = <<>> => Len(stdout) = 1

\* two features that share a key and list three keys between them
C4_Witness ==
    /\ pc = "exit"
    /\ Len(stdout) = 4
    /\ Len(data.features) = 2
    /\ DOMAIN data.features[1].properties
            \cap DOMAIN data.features[2].properties # {}
    /\ DOMAIN data.features[1].properties
            # DOMAIN data.features[2].properties

\* C5 (as claimed): a FeatureCollection with no features ends create_map
\* with EmptyInputError, a non-zero exit status and no rendering.
C5_EmptyInputError ==
    (/\ pc = "exit"
     /\ inputFile.state = "json"
     /\ "features" \in DOMAIN inputFile.data
     /\ inputFile.data.features = <<>>) =>
        /\ error = "EmptyInputError"
        /\ exitCode # 0
        /\ outputFile = Unset

\* C6: the output file is written only by a run in which reading, parsing,
\* feature and geometry extraction, aggregation and zoom estimation have all
\* succeeded; a run that raised has written nothing.
C6_NoPartialOutput ==
    /\ outputFile # Unset =>
        /\ pc = "exit"
        /\ error = "none"
        /\ exitCode = 0
        /\ inputFile.state = "json"
        /\ data = inputFile.data
        /\ "features" \in DOMAIN data
        /\ features = data.features
        /\ Len(bounds_list) = Len(features)
        /\ Len(centroid_list) = Len(features)
        /\ bounds # <<>>
        /\ centroid # <<>>
        /\ zoom # <<>>
        /\ outputFile = [layers |-> <<layer>>, initial_view_state |-> view_state]
    /\ error # "none" => outputFile = Unset

\* a run that fails inside the geometry loop, after some features were shaped
C6_Witness ==
    /\ pc = "exit"
    /\ error = "KeyError"
    /\ bounds_list # <<>>
    /\ outputFile = Unset

\* C7 (as claimed): an aggregate box of zero width or zero height gets no
\* zoom value; the run ends with DegenerateBoundsError.
C7_DegenerateBoundsError ==
    (/\ bounds # <<>>
     /\ \/ bounds[3] - bounds[1] = 0
        \/ bounds[4] - bounds[2] = 0) =>
        /\ zoom = <<>>
        /\ pc = "exit" => error = "DegenerateBoundsError"

InRange(a) ==
    /\ 0 <= a.coverage /\ a.coverage <= 1
    /\ 0 <= a.pitch /\ a.pitch <= 90
    /\ 0 <= a.bearing /\ a.bearing < 360

\* C8 (as claimed): a coverage, pitch or bearing outside its range never
\* reaches create_map, the layer or the view state; the run ends with
\* ConfigurationError and a non-zero exit status.
C8_RangeRejected ==
    (args # Unset /\ ~InRange(args)) =>
        /\ params = Unset
        /\ layer = Unset
        /\ view_state = Unset
        /\ pc = "exit" => (error = "ConfigurationError" /\ exitCode # 0)

\* value * 360 / (2 pi ln 2) lies in [MinZoom, MaxZoom]
InZoomRange(z) ==
    /\ MinZoom * z[2] * ZoomScaleDen <= z[1] * ZoomScaleNum
    /\ z[1] * ZoomScaleNum <= MaxZoom * z[2] * ZoomScaleDen

\* C9: the zoom create_map computes (the estimator's output for 500 x 500)
\* is at most 0, reaches the view state unclamped, and so is never inside
\* the [min_zoom, max_zoom] = [13, 20] of the same view state.
C9_ZoomNonPositive ==
    /\ zoom # <<>> =>
        /\ zwidth = 500
        /\ zheight = 500
        /\ zoom[2] > 0
        /\ zoom[1] <= 0
    /\ view_state # Unset =>
        /\ view_state.zoom = zoom
        /\ view_state.min_zoom = 13
        /\ view_state.max_zoom = 20
        /\ ~InZoomRange(view_state.zoom)

\* a view state built over a box of positive width and height
C9_Witness ==
    /\ view_state # Unset
    /\ bounds[1] < bounds[3]
    /\ bounds[2] < bounds[4]
    /\ view_state.zoom[1] < 0

\* C9, the estimator alone (under SpecZoom): a valid box and positive
\* width and height give a zoom of at most 0
C9_EstimatorNonPositive ==
    (pc = "exit" /\ error = "none" /\ ValidBox(bounds)) => zoom[1] <= 0

\* C10 (as claimed): every layer and view field carries the value parsed
\* for the option of the same name.
C10_PassThrough ==
    /\ layer # Unset =>
        /\ layer.pickable = args.pickable
        /\ layer.auto_highlight = args.auto_highlight
        /\ layer.stroked = args.stroked
        /\ layer.filled = args.filled
        /\ layer.wireframe = args.wireframe
        /\ layer.extruded = args.extruded
        /\ layer.coverage = args.coverage
        /\ layer.elevation_scale = args.elevation_scale
        /\ layer.get_fill_color = args.fill_color
        /\ layer.get_line_color = args.line_color
    /\ view_state # Unset =>
        /\ view_state.pitch = args.pitch
        /\ view_state.bearing = args.bearing

=============================================================================
